---- MODULE Spec2Model ----
(***************************************************************************)
(* powertest: the control loop of main() (src/src/main.rs) that turns the  *)
(* stream of Match/NoMatch measurement events into one average-current     *)
(* report per test window, and the shutdown path it shares with the        *)
(* ctrlc handler through the Arc<Mutex<Option<kill>>> slot.                *)
(*                                                                         *)
(* Two execution contexts are modelled: the main thread (pc) and the       *)
(* thread that runs the ctrlc handler (hpc).  A statement that holds the   *)
(* MutexGuard as a temporary is split into the lock acquisition and the    *)
(* rest of the statement; the guard is dropped at the end of the           *)
(* statement, also when the statement panics.                              *)
(***************************************************************************)
EXTENDS Integers, Sequences, FiniteSets

\* Bounds of the model.
MaxEvents == 6          \* events the match statement processes in one run
MaxExpected == 2        \* largest expected_test_count tried
MaxDataLen == 8         \* largest size in bytes of the DEFMT_TEST_COUNT symbol

\* micro_amps values a Measurement may carry
Samples == {500, 1000}

VARIABLES
    expected_test_count, \* main.rs:74  resolved once, immutable
    pc,                  \* position of the main thread
    rcv_res,             \* main.rs:132 result of recv_timeout, local to one iteration
    preamble_detected,   \* main.rs:121
    sum,                 \* main.rs:123
    count,               \* main.rs:125
    report_count,        \* main.rs:127
    kill,                \* main.rs:109 the Option in the mutex: TRUE = Some(kill)
    lock_owner,          \* who holds the mutex: "none", "main", "handler"
    poisoned,            \* the mutex was held by a panicking thread
    ppk2,                \* main.rs:131 value the loop breaks with: "none", "Ok", "Err"
    hpc,                 \* position of the ctrlc handler thread
    device_power,        \* power output of the instrument
    exit,                \* how the process ended, "running" while it has not
    processed,           \* history: events that reached the match statement
    reports,             \* history: the info! lines "Average current for report"
    stop_calls,          \* history: invocations of the kill closure
    stopped_by,          \* history: the context that took the closure
    power_offs,          \* history: successful set_device_power(Disabled) calls
    powered_off_by,      \* history: contexts that disabled the power
    late_recvs,          \* history: recv_timeout calls made with report_count >= expected
    ended_by,            \* history: what made the main loop break
    io_failed,           \* history: a call on the instrument returned an error
    elf,                 \* main.rs:76 the ELF given to read_test_count, NoElf with --num-tests
    count_res            \* main.rs:76 what read_test_count returned

vars == <<expected_test_count, pc, rcv_res, preamble_detected, sum, count,
          report_count, kill, lock_owner, poisoned, ppk2, hpc, device_power,
          exit, processed, reports, stop_calls, stopped_by, power_offs,
          powered_off_by, late_recvs, ended_by, io_failed, elf, count_res>>

aggVars == <<preamble_detected, sum, count, report_count, processed, reports>>
slotVars == <<kill, lock_owner, poisoned, stop_calls, stopped_by>>
powerVars == <<device_power, power_offs, powered_off_by>>
histVars == <<late_recvs, ended_by, io_failed>>
cfgVars == <<expected_test_count, elf, count_res>>

----------------------------------------------------------------------------
\* Values of the receive result (Result<MeasurementMatch, RecvTimeoutError>)

NoResult == [kind |-> "None", micro_amps |-> 0]
OkMatch(v) == [kind |-> "Match", micro_amps |-> v]
OkNoMatch == [kind |-> "NoMatch", micro_amps |-> 0]
ErrTimeout == [kind |-> "Timeout", micro_amps |-> 0]
ErrDisconnected == [kind |-> "Disconnected", micro_amps |-> 0]

Events == {OkMatch(v) : v \in Samples} \cup {OkNoMatch}

RECURSIVE Gcd(_, _)
Gcd(a, b) == IF b = 0 THEN a ELSE Gcd(b, a % b)

\* main.rs:157, sum / count as f32: kept exact as a fraction in lowest terms;
\* a float division by zero does not trap, 0/0 is NaN, written <<0, 0>>
Average(s, c) == IF c = 0 THEN <<0, 0>>
                          ELSE <<s \div Gcd(s, c), c \div Gcd(s, c)>>

----------------------------------------------------------------------------
\* read_test_count (main.rs:191-216)

Bytes == {0, 1}

\* What read_test_count sees of the ELF: whether it can be read and parsed,
\* whether it has the symbol, whether the symbol names a section, whether the
\* symbol's address range lies in that section, the word size and byte order
\* of the file, and the symbol's bytes (as many as the symbol's size).
ElfInputs ==
    [file : {"ok", "bad"}, has_symbol : BOOLEAN, in_section : BOOLEAN,
     in_range : BOOLEAN, is_64 : BOOLEAN, little_endian : BOOLEAN,
     data : UNION {[1..n -> Bytes] : n \in 0..MaxDataLen}]

\* --num-tests was given: no ELF is inspected
NoElf == [file |-> "none", has_symbol |-> FALSE, in_section |-> FALSE,
          in_range |-> FALSE, is_64 |-> FALSE, little_endian |-> FALSE,
          data |-> <<>>]

NoCount == [kind |-> "None", value |-> <<>>, error |-> "None"]
OkCount(digits) == [kind |-> "Ok", value |-> digits, error |-> "None"]
ErrCount(e) == [kind |-> "Err", value |-> <<>>, error |-> e]
PanicCount == [kind |-> "Panic", value |-> <<>>, error |-> "None"]

Reverse(seq) == [i \in 1..Len(seq) |-> seq[Len(seq) + 1 - i]]

\* main.rs:208-212: the array length of u32::from_*_bytes / u64::from_*_bytes
WordBytes(e) == IF e.is_64 THEN 8 ELSE 4

\* main.rs:191-216. The count is kept as its base-256 digits, least
\* significant first: from_le_bytes reads them as stored, from_be_bytes
\* reversed. `?` returns an error, unwrap() on None or Err panics.
read_test_count(e) ==
    IF e.file # "ok" THEN ErrCount("Io")                     \* 194-195
    ELSE IF ~e.has_symbol THEN ErrCount("NotFound")           \* 197-200
    ELSE IF ~e.in_section THEN PanicCount                     \* 202
    ELSE IF ~e.in_range THEN PanicCount                       \* 203-205
    ELSE IF Len(e.data) # WordBytes(e) THEN PanicCount        \* 209-212
    ELSE OkCount(IF e.little_endian THEN e.data ELSE Reverse(e.data))

----------------------------------------------------------------------------
Init ==
    /\ expected_test_count \in 0..MaxExpected
    /\ pc = "recv"
    /\ rcv_res = NoResult
    /\ preamble_detected = FALSE
    /\ sum = 0
    /\ count = 0
    /\ report_count = 0
    /\ kill = TRUE
    /\ lock_owner = "none"
    /\ poisoned = FALSE
    /\ ppk2 = "none"
    /\ hpc = "idle"
    /\ device_power = "Enabled"
    /\ exit = "running"
    /\ processed = <<>>
    /\ reports = <<>>
    /\ stop_calls = 0
    /\ stopped_by = "none"
    /\ power_offs = 0
    /\ powered_off_by = {}
    /\ late_recvs = 0
    /\ ended_by = "none"
    /\ io_failed = FALSE
    /\ elf = NoElf
    /\ count_res = NoCount

----------------------------------------------------------------------------
\* The main thread: the control loop

\* Off by one: the loop goes on at equality
TerminationReached_Exceeded == report_count > expected_test_count

\* main.rs:133
TerminationReached == report_count >= expected_test_count

\* main.rs:132. The producer is the instrument's thread: it may have sent an
\* event, sent nothing for 2000 ms, or dropped the sender.
MainRecv ==
    /\ exit = "running" /\ pc = "recv"
    /\ \E r \in Events \cup {ErrTimeout, ErrDisconnected} :
          /\ (r \in Events /\ report_count < expected_test_count) => Len(processed) < MaxEvents
          /\ rcv_res' = r
    /\ late_recvs' = IF report_count >= expected_test_count THEN late_recvs + 1 ELSE late_recvs
    /\ pc' = "check"
    /\ UNCHANGED <<cfgVars, aggVars, slotVars, powerVars, ppk2,
                   hpc, exit, ended_by, io_failed>>

\* main.rs:133-136, up to the lock
MainBreakOnCount ==
    /\ exit = "running" /\ pc = "check"
    /\ TerminationReached
    /\ rcv_res' = NoResult
    /\ pc' = "lock"
    /\ ended_by' = "count"
    /\ UNCHANGED <<cfgVars, aggVars, slotVars, powerVars,
                   ppk2, hpc, exit, late_recvs, io_failed>>

\* The guard is dropped: matches are added before the preamble
MatchArmGuard_Always == TRUE

\* main.rs:140, the guard of the first arm
MatchArmGuard == preamble_detected

\* A report also for a window without samples
ReportDue_Always == count >= 0

\* main.rs:152
ReportDue == count > 0

\* main.rs:140-144: a Match once the preamble was seen is added to the report
MainMatchArm ==
    /\ exit = "running" /\ pc = "check"
    /\ ~TerminationReached
    /\ rcv_res.kind = "Match" /\ MatchArmGuard
    /\ count' = count + 1
    /\ sum' = sum + rcv_res.micro_amps
    /\ processed' = Append(processed, rcv_res)
    /\ rcv_res' = NoResult
    /\ pc' = "recv"
    /\ UNCHANGED <<cfgVars, preamble_detected, report_count,
                   reports, slotVars, powerVars, ppk2, hpc, exit, late_recvs,
                   ended_by, io_failed>>

\* The phase is flipped instead of set
PhaseAfterNoMatch_Toggle == ~preamble_detected

\* main.rs:151, preamble_detected = true
PhaseAfterNoMatch == TRUE

\* The report line is written before report_count is incremented
ReportIndex_Stale == report_count

\* main.rs:154-156, the {report_count} of the report line, after the increment
ReportIndex == report_count + 1

\* The sample count is not cleared when a report is closed
CountAfterNoMatch_Kept == count

\* main.rs:160, count = 0
CountAfterNoMatch == 0

\* The running sum is not cleared when a report is closed
MainNoMatchArm_KeepSum ==
    /\ exit = "running" /\ pc = "check"
    /\ ~TerminationReached
    /\ rcv_res.kind = "NoMatch"
    /\ preamble_detected' = PhaseAfterNoMatch
    /\ IF ReportDue
          THEN /\ report_count' = report_count + 1
               /\ reports' = Append(reports, [index |-> ReportIndex,
                                              average |-> Average(sum, count)])
          ELSE UNCHANGED <<report_count, reports>>
    /\ count' = CountAfterNoMatch
    /\ sum' = sum
    /\ processed' = Append(processed, rcv_res)
    /\ rcv_res' = NoResult
    /\ pc' = "recv"
    /\ UNCHANGED <<cfgVars, slotVars, powerVars, ppk2, hpc,
                   exit, late_recvs, ended_by, io_failed>>

\* main.rs:150-163: NoMatch marks the preamble and closes the current report
MainNoMatchArm ==
    /\ exit = "running" /\ pc = "check"
    /\ ~TerminationReached
    /\ rcv_res.kind = "NoMatch"
    /\ preamble_detected' = PhaseAfterNoMatch
    /\ IF ReportDue
          THEN /\ report_count' = report_count + 1
               /\ reports' = Append(reports, [index |-> ReportIndex,
                                              average |-> Average(sum, count)])
          ELSE UNCHANGED <<report_count, reports>>
    /\ count' = CountAfterNoMatch
    /\ sum' = 0
    /\ processed' = Append(processed, rcv_res)
    /\ rcv_res' = NoResult
    /\ pc' = "recv"
    /\ UNCHANGED <<cfgVars, slotVars, powerVars, ppk2, hpc,
                   exit, late_recvs, ended_by, io_failed>>

\* main.rs:165-167: a Match before the preamble is only traced
MainPreambleMatchArm ==
    /\ exit = "running" /\ pc = "check"
    /\ ~TerminationReached
    /\ rcv_res.kind = "Match" /\ ~MatchArmGuard
    /\ processed' = Append(processed, rcv_res)
    /\ rcv_res' = NoResult
    /\ pc' = "recv"
    /\ UNCHANGED <<cfgVars, preamble_detected, sum, count,
                   report_count, reports, slotVars, powerVars, ppk2, hpc, exit,
                   late_recvs, ended_by, io_failed>>

\* main.rs:169-171, up to the lock
MainDisconnectedArm ==
    /\ exit = "running" /\ pc = "check"
    /\ ~TerminationReached
    /\ rcv_res.kind = "Disconnected"
    /\ rcv_res' = NoResult
    /\ pc' = "lock"
    /\ ended_by' = "closed"
    /\ UNCHANGED <<cfgVars, aggVars, slotVars, powerVars,
                   ppk2, hpc, exit, late_recvs, io_failed>>

\* The timeout is handled like the closed stream: the loop breaks to the stop
MainErrorArm_Shutdown ==
    /\ exit = "running" /\ pc = "check"
    /\ ~TerminationReached
    /\ rcv_res.kind = "Timeout"
    /\ rcv_res' = NoResult
    /\ pc' = "lock"
    /\ ended_by' = "error"
    /\ UNCHANGED <<cfgVars, aggVars, slotVars, powerVars,
                   ppk2, hpc, exit, late_recvs, io_failed>>

\* main.rs:173-176: the only other RecvTimeoutError is Timeout. `break Err(e)?`
\* returns the error from main: the process ends with a failure status.
MainErrorArm ==
    /\ exit = "running" /\ pc = "check"
    /\ ~TerminationReached
    /\ rcv_res.kind = "Timeout"
    /\ rcv_res' = NoResult
    /\ pc' = "done"
    /\ ended_by' = "error"
    /\ exit' = "main_err"
    /\ UNCHANGED <<cfgVars, aggVars, slotVars, powerVars,
                   ppk2, hpc, late_recvs, io_failed>>

\* main.rs:135 and 170, kill.lock().unwrap(): blocks while the handler holds
\* the mutex; unwrap panics on a poisoned mutex.
MainLock ==
    /\ exit = "running" /\ pc = "lock"
    /\ lock_owner = "none"
    /\ IF poisoned
          THEN /\ pc' = "done"
               /\ exit' = "main_panic"
               /\ UNCHANGED lock_owner
          ELSE /\ pc' = "take"
               /\ lock_owner' = "main"
               /\ UNCHANGED exit
    /\ UNCHANGED <<cfgVars, rcv_res, aggVars, kill, poisoned,
                   stop_calls, stopped_by, powerVars, ppk2, hpc, late_recvs,
                   ended_by, io_failed>>

\* The closure is read and the slot left as it is
SlotAfterPeek == kill

\* Option::take (main.rs:112, 135, 170): the slot is None afterwards
SlotAfterTake == FALSE

\* main.rs:135 and 170, .take().map(|k| k()).unwrap(): the closure is called
\* with the guard held; its result is the Result<Ppk2> the loop breaks with.
\* On None the unwrap panics in the main thread, which ends the process.
MainTake ==
    /\ exit = "running" /\ pc = "take"
    /\ lock_owner = "main"
    /\ lock_owner' = "none"
    /\ kill' = SlotAfterTake
    /\ IF kill
          THEN /\ stop_calls' = stop_calls + 1
               /\ stopped_by' = "main"
               /\ \E res \in {"Ok", "Err"} :
                     /\ ppk2' = res
                     /\ io_failed' = (io_failed \/ res = "Err")
               /\ pc' = "poweroff"
               /\ UNCHANGED <<poisoned, exit>>
          ELSE /\ poisoned' = TRUE
               /\ pc' = "done"
               /\ exit' = "main_panic"
               /\ UNCHANGED <<stop_calls, stopped_by, ppk2, io_failed>>
    /\ UNCHANGED <<cfgVars, rcv_res, aggVars, powerVars, hpc,
                   late_recvs, ended_by>>

\* main.rs:179-184: power off when the stop returned the instrument, then
\* return Ok(()); a failed set_device_power is returned with `?`.
MainPowerOff ==
    /\ exit = "running" /\ pc = "poweroff"
    /\ ppk2 = "Ok"
    /\ \E ok \in BOOLEAN :
          IF ok
             THEN /\ device_power' = "Disabled"
                  /\ power_offs' = power_offs + 1
                  /\ powered_off_by' = powered_off_by \cup {"main"}
                  /\ exit' = "main_ok"
                  /\ UNCHANGED io_failed
             ELSE /\ exit' = "main_err"
                  /\ io_failed' = TRUE
                  /\ UNCHANGED powerVars
    /\ pc' = "done"
    /\ UNCHANGED <<cfgVars, rcv_res, aggVars, slotVars, ppk2, hpc,
                   late_recvs, ended_by>>

\* main.rs:179, 183-184: the stop failed, `if let Ok` skips the power off
MainSkipPowerOff ==
    /\ exit = "running" /\ pc = "poweroff"
    /\ ppk2 = "Err"
    /\ pc' = "done"
    /\ exit' = "main_ok"
    /\ UNCHANGED <<cfgVars, rcv_res, aggVars, slotVars, powerVars,
                   ppk2, hpc, late_recvs, ended_by, io_failed>>

----------------------------------------------------------------------------
\* The ctrlc handler (main.rs:111-115), run by the ctrlc thread on a signal

\* The signal arrives and the handler reaches kill_in_handler.lock().unwrap()
HandlerLock ==
    /\ exit = "running" /\ hpc = "idle"
    /\ lock_owner = "none"
    /\ IF poisoned
          THEN /\ hpc' = "panicked"
               /\ UNCHANGED lock_owner
          ELSE /\ hpc' = "take"
               /\ lock_owner' = "handler"
    /\ UNCHANGED <<cfgVars, pc, rcv_res, aggVars, kill, poisoned,
                   stop_calls, stopped_by, powerVars, ppk2, exit, late_recvs,
                   ended_by, io_failed>>

\* main.rs:112, .take().unwrap()().unwrap(): panics on None and on a failed
\* stop, with the guard held in both cases; a panic ends the handler thread.
HandlerTake ==
    /\ exit = "running" /\ hpc = "take"
    /\ lock_owner = "handler"
    /\ lock_owner' = "none"
    /\ kill' = SlotAfterTake
    /\ IF kill
          THEN /\ stop_calls' = stop_calls + 1
               /\ stopped_by' = "handler"
               /\ \E res \in {"Ok", "Err"} :
                     IF res = "Ok"
                        THEN /\ hpc' = "poweroff"
                             /\ UNCHANGED <<poisoned, io_failed>>
                        ELSE /\ hpc' = "panicked"
                             /\ poisoned' = TRUE
                             /\ io_failed' = TRUE
          ELSE /\ poisoned' = TRUE
               /\ hpc' = "panicked"
               /\ UNCHANGED <<stop_calls, stopped_by, io_failed>>
    /\ UNCHANGED <<cfgVars, pc, rcv_res, aggVars, powerVars, ppk2,
                   exit, late_recvs, ended_by>>

\* main.rs:113
HandlerPowerOff ==
    /\ exit = "running" /\ hpc = "poweroff"
    /\ \E ok \in BOOLEAN :
          IF ok
             THEN /\ device_power' = "Disabled"
                  /\ power_offs' = power_offs + 1
                  /\ powered_off_by' = powered_off_by \cup {"handler"}
                  /\ hpc' = "exit"
                  /\ UNCHANGED io_failed
             ELSE /\ hpc' = "panicked"
                  /\ io_failed' = TRUE
                  /\ UNCHANGED powerVars
    /\ UNCHANGED <<cfgVars, pc, rcv_res, aggVars, slotVars, ppk2,
                   exit, late_recvs, ended_by>>

\* main.rs:114
HandlerExit ==
    /\ exit = "running" /\ hpc = "exit"
    /\ exit' = "exit0"
    /\ hpc' = "done"
    /\ UNCHANGED <<cfgVars, pc, rcv_res, aggVars, slotVars,
                   powerVars, ppk2, late_recvs, ended_by, io_failed>>

----------------------------------------------------------------------------
Next ==
    \/ MainRecv
    \/ MainBreakOnCount
    \/ MainMatchArm
    \/ MainNoMatchArm
    \/ MainPreambleMatchArm
    \/ MainDisconnectedArm
    \/ MainErrorArm
    \/ MainLock
    \/ MainTake
    \/ MainPowerOff
    \/ MainSkipPowerOff
    \/ HandlerLock
    \/ HandlerTake
    \/ HandlerPowerOff
    \/ HandlerExit

Spec == Init /\ [][Next]_vars

----------------------------------------------------------------------------
\* Resolving the expected count from the ELF (main.rs:74-77, the None arm)

InitElf ==
    /\ elf \in ElfInputs
    /\ count_res = NoCount
    /\ expected_test_count = 0
    /\ pc = "resolve"
    /\ rcv_res = NoResult
    /\ preamble_detected = FALSE
    /\ sum = 0
    /\ count = 0
    /\ report_count = 0
    /\ kill = FALSE
    /\ lock_owner = "none"
    /\ poisoned = FALSE
    /\ ppk2 = "none"
    /\ hpc = "unregistered"
    /\ device_power = "Disabled"
    /\ exit = "running"
    /\ processed = <<>>
    /\ reports = <<>>
    /\ stop_calls = 0
    /\ stopped_by = "none"
    /\ power_offs = 0
    /\ powered_off_by = {}
    /\ late_recvs = 0
    /\ ended_by = "none"
    /\ io_failed = FALSE

\* main.rs:76, read_test_count(&args.elf)?: an error is returned from main, a
\* panic ends the process; on Ok the digits in count_res.value are the
\* expected_test_count the rest of main runs with.
ReadTestCount ==
    /\ exit = "running" /\ pc = "resolve"
    /\ count_res' = read_test_count(elf)
    /\ pc' = IF count_res'.kind = "Ok" THEN "resolved" ELSE "done"
    /\ exit' = CASE count_res'.kind = "Ok" -> "running"
                 [] count_res'.kind = "Err" -> "main_err"
                 [] OTHER -> "main_panic"
    /\ UNCHANGED <<expected_test_count, elf, rcv_res, aggVars, slotVars,
                   powerVars, ppk2, hpc, histVars>>

NextElf == ReadTestCount

SpecElf == InitElf /\ [][NextElf]_vars

----------------------------------------------------------------------------
\* Test windows of an event history: a maximal run of Match events h[i..j]
\* that follows a NoMatch and is closed by a NoMatch.

IsWindow(h, i, j) ==
    /\ 2 <= i /\ i <= j /\ j < Len(h)
    /\ \A n \in i..j : h[n].kind = "Match"
    /\ h[i - 1].kind = "NoMatch"
    /\ h[j + 1].kind = "NoMatch"

Windows(h) == {w \in (1..Len(h)) \X (1..Len(h)) : IsWindow(h, w[1], w[2])}

NthWindow(h, k) ==
    CHOOSE w \in Windows(h) :
        Cardinality({v \in Windows(h) : v[1] < w[1]}) = k - 1

RECURSIVE SumOf(_, _, _)
SumOf(h, i, j) == IF i > j THEN 0 ELSE h[i].micro_amps + SumOf(h, i + 1, j)

AllMatch(h, n) == \A i \in 1..n : h[i].kind = "Match"

----------------------------------------------------------------------------
\* C1: in every interleaving of the control loop and the ctrlc handler the
\* kill closure is invoked at most once, and once the slot is empty it never
\* holds the closure again.
C1_StopAtMostOnce ==
    /\ [](stop_calls <= 1)
    /\ [][~kill => ~kill']_vars

\* Both contexts reached their take: the handler took the closure first and
\* the main thread then found the slot empty.
C1_Witness ==
    /\ stop_calls = 1 /\ ~kill
    /\ stopped_by = "handler" /\ exit = "main_panic"

\* C2: the context that finds the slot already empty behaves as a no-op: it
\* does not panic, be it the main thread (the handler took first) or the
\* handler thread (the main thread took first). Calls on the instrument that
\* fail are left aside.
C2_LoserIsNoOp ==
    ~io_failed =>
        /\ exit # "main_panic"
        /\ ~(hpc = "panicked" /\ stopped_by = "main")

\* C3: one report per test window of the processed events, and the k-th
\* report carries the arithmetic mean of the samples of the k-th window.
C3_OneReportPerWindow ==
    /\ Len(reports) = Cardinality(Windows(processed))
    /\ \A k \in 1..Len(reports) :
          LET w == NthWindow(processed, k)
              avg == reports[k].average
          IN /\ avg[2] > 0
             /\ avg[1] * (w[2] - w[1] + 1) = avg[2] * SumOf(processed, w[1], w[2])

\* The example of the claim with the samples of the model:
\* [NoMatch, Match(1000), Match(500), NoMatch, Match(500), NoMatch], expected 2
C3_Witness ==
    /\ expected_test_count = 2
    /\ processed = <<OkNoMatch, OkMatch(1000), OkMatch(500), OkNoMatch,
                     OkMatch(500), OkNoMatch>>
    /\ reports = <<[index |-> 1, average |-> <<750, 1>>],
                   [index |-> 2, average |-> <<500, 1>>]>>

\* C4: when the process has ended through the count, the closed stream or
\* the abort signal, and no call on the instrument failed, the power was set
\* to Disabled exactly once, by the context that took the closure.
C4_PowerOffExactlyOnce ==
    (exit # "running" /\ ended_by # "error" /\ ~io_failed) =>
        /\ power_offs = 1
        /\ device_power = "Disabled"
        /\ powered_off_by = {stopped_by}

\* C5: while only Match events have been processed, and after the NoMatch
\* that follows k such events, nothing is accumulated and nothing reported.
C5_PreambleMatchesIgnored ==
    LET n == Len(processed)
        Nothing == count = 0 /\ sum = 0 /\ report_count = 0 /\ reports = <<>>
    IN /\ AllMatch(processed, n) => Nothing
       /\ (n >= 1 /\ AllMatch(processed, n - 1) /\ processed[n].kind = "NoMatch")
             => Nothing

\* Two Match events and then the first NoMatch have been processed
C5_Witness ==
    /\ Len(processed) = 3
    /\ AllMatch(processed, 2)
    /\ processed[3].kind = "NoMatch"
    /\ preamble_detected

\* C6: the step that processes a NoMatch while count is 0 emits no report
\* and leaves report_count as it is.
C6_EmptyWindowNoReport ==
    [][(pc = "check" /\ rcv_res.kind = "NoMatch" /\ count = 0 /\ pc' = "recv")
          => (report_count' = report_count /\ reports' = reports)]_vars

\* A NoMatch right after the first NoMatch has been processed
C6_Witness ==
    /\ processed = <<OkNoMatch, OkNoMatch>>
    /\ pc = "recv"
    /\ report_count = 0 /\ reports = <<>>

\* C7: report_count never exceeds expected_test_count.
C7_ReportsBounded ==
    /\ report_count <= expected_test_count
    /\ Len(reports) <= expected_test_count

\* The expected count is reached and one more NoMatch has been received
C7_Witness ==
    /\ expected_test_count > 0
    /\ report_count = expected_test_count
    /\ pc = "check" /\ rcv_res.kind = "NoMatch"

C9_TimeoutKeepsLoopRunning ==
    [][(pc = "check" /\ rcv_res.kind = "Timeout"
          /\ report_count < expected_test_count /\ pc' # pc)
          => (/\ pc' = "recv"
              /\ exit' = "running"
              /\ UNCHANGED <<preamble_detected, sum, count, report_count>>)]_vars

\* C10: when the loop has ended on Disconnected and the main thread is done,
\* with no failed call on the instrument, main took and invoked the closure,
\* set the power to Disabled and returned Ok(()).
C10_ClosureShutsDownNormally ==
    (ended_by = "closed" /\ pc = "done" /\ ~io_failed) =>
        /\ exit = "main_ok"
        /\ stopped_by = "main"
        /\ device_power = "Disabled"

\* C11: once the abort signal has been delivered and the process has ended
\* (not through a receive error, no failed call on the instrument), the
\* handler did not panic and the process ended with exit code 0.
C11_AbortExitsZero ==
    (hpc # "idle" /\ exit # "running" /\ ended_by # "error" /\ ~io_failed) =>
        /\ exit \in {"exit0", "main_ok"}
        /\ hpc # "panicked"

\* C12: the k-th report line carries index k and the mean of the k-th window;
\* as many lines are written as report_count counts.
C12_ReportsInWindowOrder ==
    /\ Len(reports) = report_count
    /\ \A k \in 1..Len(reports) :
          /\ reports[k].index = k
          /\ k <= Cardinality(Windows(processed))
          /\ LET w == NthWindow(processed, k)
             IN reports[k].average =
                   Average(SumOf(processed, w[1], w[2]), w[2] - w[1] + 1)

\* Two windows of different means have been reported
C12_Witness ==
    /\ Len(reports) = 2
    /\ reports[1].index = 1 /\ reports[2].index = 2
    /\ reports[1].average # reports[2].average

\* C13: read_test_count returns an error, not a crash, in both failure cases:
\* NotFound without the symbol, MalformedData when the symbol's bytes are not
\* as many as the word of the binary (4 for 32 bit, 8 for 64 bit).
C13_ErrorsNotCrashes ==
    (count_res.kind # "None" /\ elf.file = "ok") =>
        /\ ~elf.has_symbol => count_res = ErrCount("NotFound")
        /\ (elf.has_symbol /\ elf.in_section /\ elf.in_range
               /\ Len(elf.data) # WordBytes(elf))
             => count_res = ErrCount("MalformedData")

\* C14: when the loop has broken on the count (expected count above 0) and
\* the main thread is done, with no failed call on the instrument, the main
\* thread took the closure.
C14_TerminatesAndTakes ==
    (expected_test_count > 0 /\ ended_by = "count" /\ pc = "done" /\ ~io_failed)
        => (stopped_by = "main" /\ exit = "main_ok")

\* C15: preamble_detected is false at the start, true exactly when a NoMatch
\* has been processed, and once true it stays true.
C15_PhaseNeverReverts ==
    /\ [](preamble_detected <=>
             \E i \in 1..Len(processed) : processed[i].kind = "NoMatch")
    /\ [][preamble_detected => preamble_detected']_vars

\* A NoMatch has been processed in the Ready phase
C15_Witness ==
    /\ preamble_detected
    /\ Len(processed) >= 3
    /\ processed[1].kind = "NoMatch"
    /\ processed[Len(processed)].kind = "NoMatch"

\* C16: while the last processed event is a NoMatch, report or not, sum and
\* count are both zero.
C16_ResetAfterNoMatch ==
    (Len(processed) > 0 /\ processed[Len(processed)].kind = "NoMatch")
        => (sum = 0 /\ count = 0)

\* A NoMatch that closed a report of two samples has been processed
C16_Witness ==
    /\ Len(processed) = 4
    /\ processed[4].kind = "NoMatch"
    /\ Len(reports) = 1
    /\ sum = 0 /\ count = 0

\* C17: with expected_test_count = 0, when the main thread is done and no call
\* on the instrument failed, it made exactly one receive, emitted no report,
\* took the closure and powered off.
C17_ZeroExpectedOneReceive ==
    (expected_test_count = 0 /\ pc = "done" /\ ~io_failed) =>
        /\ late_recvs = 1
        /\ reports = <<>>
        /\ stopped_by = "main"
        /\ power_offs = 1
        /\ exit = "main_ok"

\* C18 as stated: when the loop has ended on the receive error, the slot
\* still holds the closure and the power is still Enabled.
C18_ErrorLeavesSlotAndPower ==
    ended_by = "error" => (kill /\ device_power = "Enabled")

\* C18 as amended: the receive error ends main with a failure at once; the
\* main thread neither takes the closure nor powers off, and the slot holds
\* the closure and the power is Enabled unless the handler has acted.
C18_ErrorEndsMainWithoutShutdown ==
    ended_by = "error" =>
        /\ exit = "main_err" /\ pc = "done"
        /\ ppk2 = "none"
        /\ stopped_by # "main"
        /\ "main" \notin powered_off_by
        /\ hpc = "idle" => (kill /\ device_power = "Enabled" /\ stop_calls = 0)

\* The loop ended on a timeout after one report, no signal was delivered
C18_Witness ==
    /\ ended_by = "error"
    /\ report_count = 1 /\ expected_test_count = 2
    /\ hpc = "idle" /\ kill /\ device_power = "Enabled"

\* C19: count > 0 only in the Ready phase, count = 0 only with sum = 0, and
\* no step changes sum without changing count.
C19_AggregatorInvariant ==
    /\ [](count > 0 => preamble_detected)
    /\ [](count = 0 => sum = 0)
    /\ [][sum' # sum => count' # count]_vars

\* Two samples of a window have been added
C19_Witness ==
    /\ count = 2 /\ sum = 1500
    /\ preamble_detected

\* C20: the step of the iteration whose count check succeeds, whatever was
\* received, leaves the aggregator state and the reports as they are and
\* goes to the stop of the count break, not to an error.
C20_LastReceiveDiscarded ==
    [][(pc = "check" /\ report_count >= expected_test_count /\ pc' # pc)
          => (/\ pc' = "lock"
              /\ ended_by' = "count"
              /\ exit' = exit
              /\ UNCHANGED <<preamble_detected, sum, count, report_count,
                             processed, reports>>)]_vars

\* The loop broke on the count after one window; what it received last was
\* not appended to the processed events
C20_Witness ==
    /\ ended_by = "count" /\ pc = "lock"
    /\ processed = <<OkNoMatch, OkMatch(500), OkNoMatch>>
    /\ report_count = 1

====
